---- MODULE Spec2Model ----
(***************************************************************************)
(* Thesis workflow manager (src/app.py): the thesis status state machine,  *)
(* the committee approval gate and the deadline sweep, over the tables     *)
(* thesis, thesis_committee, decision_log and status_history.              *)
(*                                                                         *)
(* One HTTP request is two steps, as Flask runs it: the before_request     *)
(* hook enforce_deadlines (pc "idle" -> "view"), then the view function    *)
(* (pc "view" -> "idle").  Requests are served one at a time, so nothing   *)
(* runs in between.  Columns no statement of the workflow reads (title,    *)
(* abstract, student, supervisor, created_at/updated_at of thesis,         *)
(* changed_at of status_history, type, due_date and notes of milestone)    *)
(* are left out of the rows.                                               *)
(***************************************************************************)
EXTENDS Integers, Sequences, FiniteSets, TLC

\* ------------------------------------------------------------------ bounds
MaxThesis    == 2   \* thesis ids a request may name: 1..MaxThesis
MaxCreated   == 1   \* theses created under Spec
MaxDecisions == 2   \* decision_log rows per thesis under Spec
MaxGateDecisions == 3   \* decision_log rows per thesis under SpecGate
MaxRevisions == 1   \* visits of one thesis to RevisionRequested
MaxClock     == 1   \* seconds the clock advances under SpecGate
MaxDays      == 1   \* midnights that pass
MaxMilestones == 2  \* milestones created under SpecMilestone
MaxRequests  == 2   \* requests in flight on connections of their own under SpecConc
MaxHistory   == 4   \* history rows of a thesis beyond which SpecConc starts no request
MaxRows      == 1   \* milestones, submissions and decisions added under SpecAll
FirstDay     == 9   \* day number of the first day (two-digit dates 09, 10, ...)

\* ------------------------------------------------------------- SQL values
NULL     == "NULL"   \* SQL NULL / Python None in a string column
NullText == <<>>     \* SQL NULL in a date or timestamp column
NoId     == 0        \* SQL NULL in a foreign-key column

ThesisIds == 1..MaxThesis

\* Seeded reference rows (the application has no route that changes them).
\* Members 1 and 3 are "Dr. Helen Zhao" and "Dr. Fatima Al-Rashid";
\* ORDER BY cm.name puts 3 before 1.
Members       == {1, 3}
MembersByName == <<3, 1>>
Reviewers     == {1}
Supervisors   == {1}

\* ---------------------------------------------------------------- tables
THESIS_STATUSES ==
    {"Draft", "Submitted", "UnderReview", "ExternallyReviewed",
     "RevisionRequested", "Approved", "FinalSubmitted", "Completed", "Late"}

\* Seeded fault: a Late thesis may be resubmitted.
THESIS_TRANSITIONS_late_resubmit ==
    [s \in THESIS_STATUSES |->
        CASE s = "Draft"              -> {"Submitted"}
          [] s = "Submitted"          -> {"UnderReview", "ExternallyReviewed"}
          [] s = "UnderReview"        -> {"RevisionRequested", "Approved"}
          [] s = "ExternallyReviewed" -> {"Approved"}
          [] s = "RevisionRequested"  -> {"Submitted"}
          [] s = "Approved"           -> {"FinalSubmitted"}
          [] s = "FinalSubmitted"     -> {"Completed"}
          [] s = "Completed"          -> {}
          [] s = "Late"               -> {"Submitted"}]

THESIS_TRANSITIONS ==
    [s \in THESIS_STATUSES |->
        CASE s = "Draft"              -> {"Submitted"}
          [] s = "Submitted"          -> {"UnderReview", "ExternallyReviewed"}
          [] s = "UnderReview"        -> {"RevisionRequested", "Approved"}
          [] s = "ExternallyReviewed" -> {"Approved"}
          [] s = "RevisionRequested"  -> {"Submitted"}
          [] s = "Approved"           -> {"FinalSubmitted"}
          [] s = "FinalSubmitted"     -> {"Completed"}
          [] s = "Completed"          -> {}
          [] s = "Late"               -> {}]

COMMITTEE_DECISIONS == {"Approve", "Reject", "Minor Revision"}

SUBMISSION_KINDS == {"proposal", "interim", "final"}

MILESTONE_STATUSES == {"Planned", "InProgress", "Submitted", "Accepted"}

\* Seeded fault: Submitted may go back to Planned.
MILESTONE_TRANSITIONS_submitted_to_planned ==
    [s \in MILESTONE_STATUSES |->
        CASE s = "Planned"    -> {"InProgress"}
          [] s = "InProgress" -> {"Submitted"}
          [] s = "Submitted"  -> {"Accepted", "InProgress", "Planned"}
          [] s = "Accepted"   -> {}]

MILESTONE_TRANSITIONS ==
    [s \in MILESTONE_STATUSES |->
        CASE s = "Planned"    -> {"InProgress"}
          [] s = "InProgress" -> {"Submitted"}
          [] s = "Submitted"  -> {"Accepted", "InProgress"}
          [] s = "Accepted"   -> {}]

\* Seeded fault: the sweep does not exempt Completed.
NON_LATE_TERMINAL_without_completed == {"Approved", "FinalSubmitted", "Late"}

\* Seeded fault: the sweep does not exempt Late.
NON_LATE_TERMINAL_without_approved == {"FinalSubmitted", "Completed", "Late"}

NON_LATE_TERMINAL_without_late == {"Approved", "FinalSubmitted", "Completed"}

NON_LATE_TERMINAL == {"Approved", "FinalSubmitted", "Completed", "Late"}

\* Flash texts of get_committee_approval_status.
REASON_UNDECIDED == "All committee decisions must be submitted before approval."
REASON_REJECT    == "Approval blocked: one or more committee members selected Reject."

\* ------------------------------------------------------- dates as TEXT
\* date.isoformat() and strftime("%Y-%m-%dT%H:%M:%S") give zero-padded,
\* fixed-width numerals; here a number n < 100 prints as two digits.
IsoFormat(n) == <<n \div 10, n % 10>>

\* SQLite's comparison of two TEXT values: byte by byte, a proper prefix first.
RECURSIVE TextLess(_, _)
TextLess(a, b) ==
    IF b = <<>> THEN FALSE
    ELSE IF a = <<>> THEN TRUE
    ELSE IF Head(a) # Head(b) THEN Head(a) < Head(b)
    ELSE TextLess(Tail(a), Tail(b))

\* ----------------------------------------------------------------- state
VARIABLES
    thesis,           \* table thesis: id -> [status, supervisor_id,
                      \*   external_reviewer_id, submission_deadline]
    next_thesis_id,   \* AUTOINCREMENT counter of thesis
    thesis_committee, \* table thesis_committee: set of <<thesis_id, committee_member_id>>
    decision_log,     \* table decision_log, by thesis_id, rows in id order
    status_history,   \* table status_history, by thesis_id, rows in id order
    milestone,        \* table milestone: id -> [thesis_id, status, due_date]
    next_milestone_id,\* AUTOINCREMENT counter of milestone
    submission,       \* table submission: id -> [thesis_id, kind]
    next_submission_id,\* AUTOINCREMENT counter of submission
    req,              \* requests served by other threads, each on its own connection
    wlock,            \* the connection holding SQLite's write lock (0: none)
    today,            \* date.today(), a day number
    clock,            \* datetime.now(), whole seconds
    pc,               \* "idle": between requests; "view": before_request done
    overdue,          \* enforce_deadlines' local: the rows its SELECT returned
    response          \* what the last request answered

vars == <<thesis, next_thesis_id, thesis_committee, decision_log,
          status_history, milestone, next_milestone_id,
          submission, next_submission_id,
          today, clock, pc, overdue, response, req, wlock>>

conn == <<req, wlock>>

ms == <<milestone, next_milestone_id>>

subs == <<submission, next_submission_id>>

db == <<thesis, next_thesis_id, thesis_committee, decision_log, status_history,
        ms, subs>>

\* A response: its kind ("OK", an error, "Detail" for the thesis page), the
\* flashed gate reason, and on the thesis page the gate's three results.
Respond(kind, reason) ==
    [kind |-> kind, can_approve |-> FALSE, reason |-> reason,
     member_decisions |-> <<>>]

\* The tables as init_db creates them.  seed() fills an empty database with
\* theses in Draft, Submitted, ExternallyReviewed, RevisionRequested and
\* Approved, each with the history of a legal path from Draft, written within
\* one second; the handlers below reach every such row from the empty tables.
Requests == 1..MaxRequests

\* A connection between requests: nothing read, no open transaction.  result
\* is the outcome of the connection's last request and died the statement
\* that request was about to run when it died.
NoRequest ==
    [pc |-> "none", thesis_id |-> NoId, new_status |-> NULL, status |-> NULL,
     overdue |-> {}, txn |-> <<>>, result |-> "None", died |-> "none"]

Init ==
    /\ req = [r \in Requests |-> NoRequest]
    /\ wlock = 0
    /\ thesis = <<>>
    /\ next_thesis_id = 1
    /\ thesis_committee = {}
    /\ decision_log = [t \in ThesisIds |-> <<>>]
    /\ status_history = [t \in ThesisIds |-> <<>>]
    /\ milestone = <<>>
    /\ next_milestone_id = 1
    /\ submission = <<>>
    /\ next_submission_id = 1
    /\ today = FirstDay
    /\ clock = 0
    /\ pc = "idle"
    /\ overdue = {}
    /\ response = Respond("None", NULL)

\* ----------------------------------------------------------------- clock
Tick ==
    /\ pc = "idle"
    /\ clock < MaxClock
    /\ clock' = clock + 1
    /\ UNCHANGED <<db, today, pc, overdue, response, conn>>

Midnight ==
    /\ pc = "idle"
    /\ today < FirstDay + MaxDays
    /\ today' = today + 1
    /\ UNCHANGED <<db, clock, pc, overdue, response, conn>>

\* ------------------------------------------------------- deadline sweep
\* Seeded fault: "submission_deadline <= ?" for "submission_deadline < ?".
SelectOverdue_not_strict(th, day) ==
    {[thesis_id |-> t, status |-> th[t].status] : t \in
        {u \in DOMAIN th :
            /\ th[u].submission_deadline # NullText
            /\ ~TextLess(IsoFormat(day), th[u].submission_deadline)
            /\ th[u].status \notin NON_LATE_TERMINAL}}

\* The SELECT of enforce_deadlines on the day `day`: rows (thesis_id, status).
SelectOverdue(th, day) ==
    {[thesis_id |-> t, status |-> th[t].status] : t \in
        {u \in DOMAIN th :
            /\ th[u].submission_deadline # NullText
            /\ TextLess(th[u].submission_deadline, IsoFormat(day))
            /\ th[u].status \notin NON_LATE_TERMINAL}}

\* Seeded fault: the hook is not registered; the view runs unswept.
enforce_deadlines_not_registered ==
    /\ pc = "idle"
    /\ pc' = "view"
    /\ overdue' = {}
    /\ response' = Respond("None", NULL)
    /\ UNCHANGED <<db, today, clock, conn>>

\* before_request: one UPDATE and one INSERT per selected row, one commit.
enforce_deadlines ==
    /\ pc = "idle"
    /\ overdue' = SelectOverdue(thesis, today)
    /\ thesis' = [t \in DOMAIN thesis |->
                    IF \E r \in overdue' : r.thesis_id = t
                    THEN [thesis[t] EXCEPT !.status = "Late"]
                    ELSE thesis[t]]
    /\ status_history' = [t \in ThesisIds |->
                    IF \E r \in overdue' : r.thesis_id = t
                    THEN Append(status_history[t],
                                [old_status |-> (CHOOSE r \in overdue' :
                                                    r.thesis_id = t).status,
                                 new_status |-> "Late"])
                    ELSE status_history[t]]
    /\ pc' = "view"
    /\ response' = Respond("None", NULL)
    /\ UNCHANGED <<next_thesis_id, thesis_committee, decision_log, today, clock, ms, subs, conn>>

\* -------------------------------------------------------- approval gate
\* Rows of decision_log for (thesis t, member m), as indices.
DecisionRows(t, m) ==
    {i \in 1..Len(decision_log[t]) : decision_log[t][i].committee_member_id = m}

\* "ORDER BY created_at DESC LIMIT 1": a row no other row of the pair is
\* newer than.  SQL leaves the order of rows with equal created_at open, so
\* every such row is a possible answer.
LatestRows(t, m) ==
    {i \in DecisionRows(t, m) :
        \A j \in DecisionRows(t, m) :
            ~TextLess(decision_log[t][i].created_at, decision_log[t][j].created_at)}

\* One answer of the query per member (0: no row).
Picks(t) ==
    {f \in [Members -> 0..Len(decision_log[t])] :
        \A m \in Members :
            IF LatestRows(t, m) = {} THEN f[m] = 0 ELSE f[m] \in LatestRows(t, m)}

CommitteeOf(t) ==
    SelectSeq(MembersByName, LAMBDA m : <<t, m>> \in thesis_committee)

\* The gate with a seeded fault: "reject_first" tests has_reject before
\* all_decided; "empty_blocks" lacks the early return for an empty committee
\* and takes "all decided" to need a decision.
FaultyGate(t, pick, fault) ==
    LET members == CommitteeOf(t)
        md(m) ==
            IF pick[m] = 0
            THEN [id |-> m, decision |-> NULL, comment |-> NULL,
                  created_at |-> NullText]
            ELSE [id |-> m,
                  decision   |-> decision_log[t][pick[m]].decision,
                  comment    |-> decision_log[t][pick[m]].comment,
                  created_at |-> decision_log[t][pick[m]].created_at]
        member_decisions == [i \in 1..Len(members) |-> md(members[i])]
        all_decided == /\ \A i \in 1..Len(members) : pick[members[i]] # 0
                       /\ fault = "empty_blocks" => members # <<>>
        has_reject == \E i \in 1..Len(members) :
                          member_decisions[i].decision = "Reject"
        undecided == [can_approve |-> FALSE, reason |-> REASON_UNDECIDED,
                      member_decisions |-> member_decisions]
        rejected  == [can_approve |-> FALSE, reason |-> REASON_REJECT,
                      member_decisions |-> member_decisions]
    IN  IF members = <<>> /\ fault # "empty_blocks"
        THEN [can_approve |-> TRUE, reason |-> NULL, member_decisions |-> <<>>]
        ELSE IF fault = "reject_first" /\ has_reject THEN rejected
        ELSE IF ~all_decided THEN undecided
        ELSE IF has_reject THEN rejected
        ELSE [can_approve |-> TRUE, reason |-> NULL,
              member_decisions |-> member_decisions]

gate_reject_first(t, pick) == FaultyGate(t, pick, "reject_first")
gate_empty_blocks(t, pick) == FaultyGate(t, pick, "empty_blocks")

get_committee_approval_status(t, pick) ==
    LET members == CommitteeOf(t)
        md(m) ==
            IF pick[m] = 0
            THEN [id |-> m, decision |-> NULL, comment |-> NULL,
                  created_at |-> NullText]
            ELSE [id |-> m,
                  decision   |-> decision_log[t][pick[m]].decision,
                  comment    |-> decision_log[t][pick[m]].comment,
                  created_at |-> decision_log[t][pick[m]].created_at]
        member_decisions == [i \in 1..Len(members) |-> md(members[i])]
        all_decided == \A i \in 1..Len(members) : pick[members[i]] # 0
        has_reject == \E i \in 1..Len(members) :
                          member_decisions[i].decision = "Reject"
    IN  IF members = <<>>
        THEN [can_approve |-> TRUE, reason |-> NULL, member_decisions |-> <<>>]
        ELSE IF ~all_decided
        THEN [can_approve |-> FALSE, reason |-> REASON_UNDECIDED,
              member_decisions |-> member_decisions]
        ELSE IF has_reject
        THEN [can_approve |-> FALSE, reason |-> REASON_REJECT,
              member_decisions |-> member_decisions]
        ELSE [can_approve |-> TRUE, reason |-> NULL,
              member_decisions |-> member_decisions]

\* ------------------------------------------------------------- requests
Refuse(kind) ==
    /\ response' = Respond(kind, NULL)
    /\ overdue' = {}
    /\ pc' = "idle"
    /\ UNCHANGED <<db, today, clock, conn>>

\* GET / and GET /theses: reads only.
dashboard ==
    /\ pc = "view"
    /\ response' = Respond("OK", NULL)
    /\ overdue' = {}
    /\ pc' = "idle"
    /\ UNCHANGED <<db, today, clock, conn>>

\* Seeded fault: creation writes no status_history row.
thesis_create_without_history(valid, supervisor, reviewer, deadline, committee_ids) ==
    /\ pc = "view"
    /\ IF ~valid
       THEN Refuse("ValidationError")
       ELSE /\ thesis' = (next_thesis_id :> [status |-> "Draft",
                                            supervisor_id |-> supervisor,
                                            external_reviewer_id |-> reviewer,
                                            submission_deadline |-> deadline])
                         @@ thesis
            /\ next_thesis_id' = next_thesis_id + 1
            /\ thesis_committee' = thesis_committee \cup
                                   {<<next_thesis_id, m>> : m \in committee_ids}
            /\ response' = Respond("OK", NULL)
            /\ overdue' = {}
            /\ pc' = "idle"
            /\ UNCHANGED <<decision_log, status_history, today, clock, ms, subs, conn>>

thesis_create(valid, supervisor, reviewer, deadline, committee_ids) ==
    /\ pc = "view"
    /\ IF ~valid
       THEN Refuse("ValidationError")
       ELSE /\ thesis' = (next_thesis_id :> [status |-> "Draft",
                                            supervisor_id |-> supervisor,
                                            external_reviewer_id |-> reviewer,
                                            submission_deadline |-> deadline])
                         @@ thesis
            /\ next_thesis_id' = next_thesis_id + 1
            /\ thesis_committee' = thesis_committee \cup
                                   {<<next_thesis_id, m>> : m \in committee_ids}
            /\ status_history' = [status_history EXCEPT ![next_thesis_id] =
                                    Append(@, [old_status |-> NULL,
                                               new_status |-> "Draft"])]
            /\ response' = Respond("OK", NULL)
            /\ overdue' = {}
            /\ pc' = "idle"
            /\ UNCHANGED <<decision_log, today, clock, ms, subs, conn>>

thesis_detail(t) ==
    /\ pc = "view"
    /\ IF t \notin DOMAIN thesis
       THEN Refuse("NotFound")
       ELSE \E pick \in Picks(t) :
            LET gate == get_committee_approval_status(t, pick) IN
            /\ response' = [kind |-> "Detail",
                            can_approve |-> gate.can_approve,
                            reason |-> gate.reason,
                            member_decisions |-> gate.member_decisions]
            /\ overdue' = {}
            /\ pc' = "idle"
            /\ UNCHANGED <<db, today, clock, conn>>

\* Seeded fault: old_status is read after the UPDATE.
CommitTransition_old_read_late(t, new_status) ==
    /\ thesis' = [thesis EXCEPT ![t].status = new_status]
    /\ status_history' = [status_history EXCEPT ![t] =
                            Append(@, [old_status |-> new_status,
                                       new_status |-> new_status])]
    /\ response' = Respond("OK", NULL)
    /\ overdue' = {}
    /\ pc' = "idle"
    /\ UNCHANGED <<next_thesis_id, thesis_committee, decision_log, today, clock, ms, subs, conn>>

\* The two writes of a successful transition, committed together.
CommitTransition(t, new_status) ==
    /\ thesis' = [thesis EXCEPT ![t].status = new_status]
    /\ status_history' = [status_history EXCEPT ![t] =
                            Append(@, [old_status |-> thesis[t].status,
                                       new_status |-> new_status])]
    /\ response' = Respond("OK", NULL)
    /\ overdue' = {}
    /\ pc' = "idle"
    /\ UNCHANGED <<next_thesis_id, thesis_committee, decision_log, today, clock, ms, subs, conn>>

\* The handler with a seeded fault: "any_edge" tests the target against the
\* edges of every status, "no_reviewer_check" skips the reviewer test,
\* "gate_always" consults the gate for every target, "no_edge_check" takes
\* any target the form supplies.
FaultyTransition(t, new_status, fault) ==
    /\ pc = "view"
    /\ IF t \notin DOMAIN thesis
       THEN Refuse("NotFound")
       ELSE IF new_status \notin
                 (IF fault = "any_edge"
                  THEN UNION {THESIS_TRANSITIONS[x] : x \in THESIS_STATUSES}
                  ELSE IF fault = "no_edge_check" /\ new_status # NULL
                  THEN {new_status}
                  ELSE THESIS_TRANSITIONS[thesis[t].status])
       THEN Refuse("IllegalTransition")
       ELSE IF /\ fault # "no_reviewer_check"
               /\ new_status = "ExternallyReviewed"
               /\ thesis[t].external_reviewer_id = NoId
       THEN Refuse("MissingPrerequisite")
       ELSE IF fault = "gate_always" \/ new_status = "Approved"
       THEN \E pick \in Picks(t) :
            LET gate == get_committee_approval_status(t, pick) IN
            IF ~gate.can_approve
            THEN /\ response' = Respond("ApprovalBlocked", gate.reason)
                 /\ overdue' = {}
                 /\ pc' = "idle"
                 /\ UNCHANGED <<db, today, clock, conn>>
            ELSE CommitTransition(t, new_status)
       ELSE CommitTransition(t, new_status)

thesis_transition_gate_always(t, new_status) ==
    FaultyTransition(t, new_status, "gate_always")
thesis_transition_no_edge_check(t, new_status) ==
    FaultyTransition(t, new_status, "no_edge_check")
thesis_transition_any_edge(t, new_status) ==
    FaultyTransition(t, new_status, "any_edge")
thesis_transition_no_reviewer_check(t, new_status) ==
    FaultyTransition(t, new_status, "no_reviewer_check")

thesis_transition(t, new_status) ==
    /\ pc = "view"
    /\ IF t \notin DOMAIN thesis
       THEN Refuse("NotFound")
       ELSE IF new_status \notin THESIS_TRANSITIONS[thesis[t].status]
       THEN Refuse("IllegalTransition")
       ELSE IF new_status = "ExternallyReviewed" /\ thesis[t].external_reviewer_id = NoId
       THEN Refuse("MissingPrerequisite")
       ELSE IF new_status = "Approved"
       THEN \E pick \in Picks(t) :
            LET gate == get_committee_approval_status(t, pick) IN
            IF ~gate.can_approve
            THEN /\ response' = Respond("ApprovalBlocked", gate.reason)
                 /\ overdue' = {}
                 /\ pc' = "idle"
                 /\ UNCHANGED <<db, today, clock, conn>>
            ELSE CommitTransition(t, new_status)
       ELSE CommitTransition(t, new_status)

\* Seeded fault: an edit that moves the deadline of a Late thesis to today
\* or later puts the thesis back to Draft.
thesis_edit_reopens_late(t, valid, supervisor, reviewer, deadline, committee_ids) ==
    /\ pc = "view"
    /\ IF t \notin DOMAIN thesis
       THEN Refuse("NotFound")
       ELSE IF ~valid
       THEN Refuse("ValidationError")
       ELSE /\ thesis' = [thesis EXCEPT
                            ![t].supervisor_id = supervisor,
                            ![t].external_reviewer_id = reviewer,
                            ![t].submission_deadline = deadline,
                            ![t].status =
                                IF /\ @ = "Late"
                                   /\ deadline # NullText
                                   /\ ~TextLess(deadline, IsoFormat(today))
                                THEN "Draft" ELSE @]
            /\ thesis_committee' =
                    {p \in thesis_committee : p[1] # t}
                    \cup {<<t, m>> : m \in committee_ids}
            /\ response' = Respond("OK", NULL)
            /\ overdue' = {}
            /\ pc' = "idle"
            /\ UNCHANGED <<next_thesis_id, decision_log, status_history,
                           today, clock, ms, subs, conn>>

\* POST /theses/<id>/edit.  The statements run in one transaction; an
\* IntegrityError (none arises for ids the form offers) would roll it back.
thesis_edit(t, valid, supervisor, reviewer, deadline, committee_ids) ==
    /\ pc = "view"
    /\ IF t \notin DOMAIN thesis
       THEN Refuse("NotFound")
       ELSE IF ~valid
       THEN Refuse("ValidationError")
       ELSE /\ thesis' = [thesis EXCEPT ![t].supervisor_id = supervisor,
                                        ![t].external_reviewer_id = reviewer,
                                        ![t].submission_deadline = deadline]
            /\ thesis_committee' =
                    {p \in thesis_committee : p[1] # t}
                    \cup {<<t, m>> : m \in committee_ids}
            /\ response' = Respond("OK", NULL)
            /\ overdue' = {}
            /\ pc' = "idle"
            /\ UNCHANGED <<next_thesis_id, decision_log, status_history,
                           today, clock, ms, subs, conn>>

\* Seeded fault: the connection lacks PRAGMA foreign_keys = ON, so the
\* DELETE removes the thesis row alone.
thesis_delete_foreign_keys_off(t) ==
    /\ pc = "view"
    /\ thesis' = [u \in DOMAIN thesis \ {t} |-> thesis[u]]
    /\ response' = Respond("OK", NULL)
    /\ overdue' = {}
    /\ pc' = "idle"
    /\ UNCHANGED <<next_thesis_id, thesis_committee, decision_log,
                   status_history, today, clock, ms, subs, conn>>

\* DELETE FROM thesis, with ON DELETE CASCADE on thesis_committee,
\* decision_log, status_history, milestone and submission (get_db turns
\* foreign keys on for every connection).  No existence check: deleting an
\* absent id deletes nothing and answers as a success.
thesis_delete(t) ==
    /\ pc = "view"
    /\ thesis' = [u \in DOMAIN thesis \ {t} |-> thesis[u]]
    /\ thesis_committee' = {p \in thesis_committee : p[1] # t}
    /\ decision_log' = [decision_log EXCEPT ![t] = <<>>]
    /\ status_history' = [status_history EXCEPT ![t] = <<>>]
    /\ milestone' = [m \in {n \in DOMAIN milestone : milestone[n].thesis_id # t}
                        |-> milestone[m]]
    /\ submission' = [n \in {k \in DOMAIN submission : submission[k].thesis_id # t}
                        |-> submission[n]]
    /\ response' = Respond("OK", NULL)
    /\ overdue' = {}
    /\ pc' = "idle"
    /\ UNCHANGED <<next_thesis_id, next_milestone_id, next_submission_id,
                   today, clock, conn>>

\* UPDATE ... WHERE thesis_id=?: no row, no change, still a success.
thesis_assign_supervisor(t, supervisor) ==
    /\ pc = "view"
    /\ thesis' = [u \in DOMAIN thesis |->
                    IF u = t
                    THEN [thesis[u] EXCEPT !.supervisor_id = supervisor]
                    ELSE thesis[u]]
    /\ response' = Respond("OK", NULL)
    /\ overdue' = {}
    /\ pc' = "idle"
    /\ UNCHANGED <<next_thesis_id, thesis_committee, decision_log,
                   status_history, today, clock, ms, subs, conn>>

thesis_assign_reviewer(t, reviewer) ==
    /\ pc = "view"
    /\ thesis' = [u \in DOMAIN thesis |->
                    IF u = t
                    THEN [thesis[u] EXCEPT !.external_reviewer_id = reviewer]
                    ELSE thesis[u]]
    /\ response' = Respond("OK", NULL)
    /\ overdue' = {}
    /\ pc' = "idle"
    /\ UNCHANGED <<next_thesis_id, thesis_committee, decision_log,
                   status_history, today, clock, ms, subs, conn>>

\* Seeded fault: replacing the committee also deletes the decisions of the
\* members it drops.
thesis_update_committee_purges_log(t, committee_ids) ==
    /\ pc = "view"
    /\ IF t \notin DOMAIN thesis /\ committee_ids # {}
       THEN Refuse("InternalError")
       ELSE /\ thesis_committee' =
                    {p \in thesis_committee : p[1] # t}
                    \cup {<<t, m>> : m \in committee_ids}
            /\ decision_log' = [decision_log EXCEPT ![t] =
                    SelectSeq(@, LAMBDA r : r.committee_member_id \in committee_ids)]
            /\ response' = Respond("OK", NULL)
            /\ overdue' = {}
            /\ pc' = "idle"
            /\ UNCHANGED <<thesis, next_thesis_id, status_history, today, clock, ms, subs, conn>>

\* Delete-all-then-insert-selected.  For an absent thesis the first INSERT
\* violates the foreign key: the request dies with IntegrityError and the
\* open transaction is rolled back when the connection closes.
thesis_update_committee(t, committee_ids) ==
    /\ pc = "view"
    /\ IF t \notin DOMAIN thesis /\ committee_ids # {}
       THEN Refuse("InternalError")
       ELSE /\ thesis_committee' =
                    {p \in thesis_committee : p[1] # t}
                    \cup {<<t, m>> : m \in committee_ids}
            /\ response' = Respond("OK", NULL)
            /\ overdue' = {}
            /\ pc' = "idle"
            /\ UNCHANGED <<thesis, next_thesis_id, decision_log, status_history,
                           today, clock, ms, subs, conn>>

\* Seeded fault: the assignment is not looked up.
committee_decision_submit_unchecked(t, member_id, decision, comment) ==
    /\ pc = "view"
    /\ IF member_id = NoId \/ decision \notin COMMITTEE_DECISIONS
       THEN Refuse("InvalidDecision")
       ELSE /\ decision_log' = [decision_log EXCEPT ![t] =
                    Append(@, [committee_member_id |-> member_id,
                               decision   |-> decision,
                               comment    |-> comment,
                               created_at |-> IsoFormat(clock)])]
            /\ response' = Respond("OK", NULL)
            /\ overdue' = {}
            /\ pc' = "idle"
            /\ UNCHANGED <<thesis, next_thesis_id, thesis_committee,
                           status_history, today, clock, ms, subs, conn>>

\* Seeded fault: the row is inserted and committed before the assignment is
\* looked up.
committee_decision_submit_logs_refused(t, member_id, decision, comment) ==
    /\ pc = "view"
    /\ IF member_id = NoId \/ decision \notin COMMITTEE_DECISIONS
       THEN Refuse("InvalidDecision")
       ELSE /\ decision_log' = [decision_log EXCEPT ![t] =
                    Append(@, [committee_member_id |-> member_id,
                               decision   |-> decision,
                               comment    |-> comment,
                               created_at |-> IsoFormat(clock)])]
            /\ response' = Respond(IF <<t, member_id>> \notin thesis_committee
                                   THEN "NotAssigned" ELSE "OK", NULL)
            /\ overdue' = {}
            /\ pc' = "idle"
            /\ UNCHANGED <<thesis, next_thesis_id, thesis_committee,
                           status_history, today, clock, ms, subs, conn>>

\* member_id = NoId models a missing committee_member_id field.
committee_decision_submit(t, member_id, decision, comment) ==
    /\ pc = "view"
    /\ IF member_id = NoId \/ decision \notin COMMITTEE_DECISIONS
       THEN Refuse("InvalidDecision")
       ELSE IF <<t, member_id>> \notin thesis_committee
       THEN Refuse("NotAssigned")
       ELSE /\ decision_log' = [decision_log EXCEPT ![t] =
                    Append(@, [committee_member_id |-> member_id,
                               decision   |-> decision,
                               comment    |-> comment,
                               created_at |-> IsoFormat(clock)])]
            /\ response' = Respond("OK", NULL)
            /\ overdue' = {}
            /\ pc' = "idle"
            /\ UNCHANGED <<thesis, next_thesis_id, thesis_committee,
                           status_history, today, clock, ms, subs, conn>>

\* ----------------------------------------------------------- milestones
\* POST /theses/<id>/milestones/add.  For an absent thesis the INSERT
\* violates the foreign key and the request dies with IntegrityError.
milestone_add(t, valid, due_date) ==
    /\ pc = "view"
    /\ IF ~valid
       THEN Refuse("ValidationError")
       ELSE IF t \notin DOMAIN thesis
       THEN Refuse("InternalError")
       ELSE /\ milestone' = (next_milestone_id :> [thesis_id |-> t,
                                                   status |-> "Planned",
                                                   due_date |-> due_date])
                            @@ milestone
            /\ next_milestone_id' = next_milestone_id + 1
            /\ response' = Respond("OK", NULL)
            /\ overdue' = {}
            /\ pc' = "idle"
            /\ UNCHANGED <<thesis, next_thesis_id, thesis_committee,
                           decision_log, status_history, today, clock, subs, conn>>

\* Seeded fault: the edit rewrites the whole row, the status with its
\* default.
milestone_edit_resets_status(m, valid, due_date) ==
    /\ pc = "view"
    /\ IF m \notin DOMAIN milestone
       THEN Refuse("NotFound")
       ELSE IF ~valid
       THEN Refuse("ValidationError")
       ELSE /\ milestone' = [milestone EXCEPT ![m].due_date = due_date,
                                              ![m].status = "Planned"]
            /\ response' = Respond("OK", NULL)
            /\ overdue' = {}
            /\ pc' = "idle"
            /\ UNCHANGED <<thesis, next_thesis_id, thesis_committee,
                           decision_log, status_history, next_milestone_id,
                           today, clock, subs, conn>>

\* POST /milestones/<id>/edit: writes type, due_date and notes only (of the
\* three the table here carries due_date).
milestone_edit(m, valid, due_date) ==
    /\ pc = "view"
    /\ IF m \notin DOMAIN milestone
       THEN Refuse("NotFound")
       ELSE IF ~valid
       THEN Refuse("ValidationError")
       ELSE /\ milestone' = [milestone EXCEPT ![m].due_date = due_date]
            /\ response' = Respond("OK", NULL)
            /\ overdue' = {}
            /\ pc' = "idle"
            /\ UNCHANGED <<thesis, next_thesis_id, thesis_committee,
                           decision_log, status_history, next_milestone_id,
                           today, clock, subs, conn>>

milestone_delete(m) ==
    /\ pc = "view"
    /\ IF m \notin DOMAIN milestone
       THEN Refuse("NotFound")
       ELSE /\ milestone' = [n \in DOMAIN milestone \ {m} |-> milestone[n]]
            /\ response' = Respond("OK", NULL)
            /\ overdue' = {}
            /\ pc' = "idle"
            /\ UNCHANGED <<thesis, next_thesis_id, thesis_committee,
                           decision_log, status_history, next_milestone_id,
                           today, clock, subs, conn>>

\* Seeded fault: a milestone of a Late or Completed thesis is frozen.
milestone_transition_thesis_open(m, new_status) ==
    /\ pc = "view"
    /\ IF m \notin DOMAIN milestone
       THEN Refuse("NotFound")
       ELSE IF \/ new_status \notin MILESTONE_TRANSITIONS[milestone[m].status]
               \/ thesis[milestone[m].thesis_id].status \in {"Late", "Completed"}
       THEN Refuse("IllegalTransition")
       ELSE /\ milestone' = [milestone EXCEPT ![m].status = new_status]
            /\ response' = Respond("OK", NULL)
            /\ overdue' = {}
            /\ pc' = "idle"
            /\ UNCHANGED <<thesis, next_thesis_id, thesis_committee,
                           decision_log, status_history, next_milestone_id,
                           today, clock, subs, conn>>

milestone_transition(m, new_status) ==
    /\ pc = "view"
    /\ IF m \notin DOMAIN milestone
       THEN Refuse("NotFound")
       ELSE IF new_status \notin MILESTONE_TRANSITIONS[milestone[m].status]
       THEN Refuse("IllegalTransition")
       ELSE /\ milestone' = [milestone EXCEPT ![m].status = new_status]
            /\ response' = Respond("OK", NULL)
            /\ overdue' = {}
            /\ pc' = "idle"
            /\ UNCHANGED <<thesis, next_thesis_id, thesis_committee,
                           decision_log, status_history, next_milestone_id,
                           today, clock, subs, conn>>

\* ---------------------------------------------------------- submissions
\* POST /theses/<id>/submissions/add.  For an absent thesis the INSERT
\* violates the foreign key and the request dies with IntegrityError.
submission_add(t, kind) ==
    /\ pc = "view"
    /\ IF kind \notin SUBMISSION_KINDS
       THEN Refuse("ValidationError")
       ELSE IF t \notin DOMAIN thesis
       THEN Refuse("InternalError")
       ELSE /\ submission' = (next_submission_id :> [thesis_id |-> t,
                                                     kind |-> kind])
                             @@ submission
            /\ next_submission_id' = next_submission_id + 1
            /\ response' = Respond("OK", NULL)
            /\ overdue' = {}
            /\ pc' = "idle"
            /\ UNCHANGED <<thesis, next_thesis_id, thesis_committee,
                           decision_log, status_history, ms, today, clock, conn>>

\* ------------------------------------------- requests on other threads
\* The server (werkzeug, threaded) serves each request on a thread of its
\* own and get_db opens one connection per request.  A request's statements
\* are separate steps; its writes stay in the connection's transaction,
\* which holds the database's write lock from the first write, until
\* db.commit() applies them at once.

\* The rows a committed transaction writes: status updates, then history rows.
ApplyThesis(th, txn) ==
    [t \in DOMAIN th |->
        LET ws == SelectSeq(txn, LAMBDA w : w.op = "UPDATE" /\ w.thesis_id = t)
        IN  IF ws = <<>> THEN th[t]
            ELSE [th[t] EXCEPT !.status = ws[Len(ws)].status]]

RECURSIVE ApplyHistory(_, _)
ApplyHistory(h, txn) ==
    IF txn = <<>> THEN h
    ELSE LET w == Head(txn) IN
         ApplyHistory(
            IF w.op = "INSERT"
            THEN [h EXCEPT ![w.thesis_id] =
                    Append(@, [old_status |-> w.old_status,
                               new_status |-> w.new_status])]
            ELSE h,
            Tail(txn))

\* A thread takes up POST /theses/<t>/transition with new_status = s.
request_begin(r, t, s) ==
    /\ req[r].pc = "none"
    /\ req' = [req EXCEPT ![r] =
                [NoRequest EXCEPT !.pc = "hook", !.thesis_id = t, !.new_status = s]]
    /\ UNCHANGED <<db, today, clock, pc, overdue, response, wlock>>

\* enforce_deadlines, the SELECT.
hook_select(r) ==
    /\ req[r].pc = "hook"
    /\ LET rows == SelectOverdue(thesis, today) IN
       req' = [req EXCEPT ![r].overdue = rows,
                          ![r].pc = IF rows = {} THEN "read" ELSE "hook_write"]
    /\ UNCHANGED <<db, today, clock, pc, overdue, response, wlock>>

\* enforce_deadlines, the UPDATE and INSERT of every selected row.
hook_write(r) ==
    /\ req[r].pc = "hook_write"
    /\ wlock = 0
    /\ wlock' = r
    /\ LET rows == req[r].overdue
           ids  == {w.thesis_id : w \in rows}
           RECURSIVE Writes(_)
           Writes(S) ==
               IF S = {} THEN <<>>
               ELSE LET t == CHOOSE x \in S : \A y \in S : x <= y
                        w == CHOOSE x \in rows : x.thesis_id = t
                    IN  <<[op |-> "UPDATE", thesis_id |-> t, status |-> "Late"],
                          [op |-> "INSERT", thesis_id |-> t,
                           old_status |-> w.status, new_status |-> "Late"]>>
                        \o Writes(S \ {t})
       IN  req' = [req EXCEPT ![r].txn = Writes(ids), ![r].pc = "hook_commit"]
    /\ UNCHANGED <<db, today, clock, pc, overdue, response>>

\* enforce_deadlines, db.commit().
hook_commit(r) ==
    /\ req[r].pc = "hook_commit"
    /\ thesis' = ApplyThesis(thesis, req[r].txn)
    /\ status_history' = ApplyHistory(status_history, req[r].txn)
    /\ wlock' = 0
    /\ req' = [req EXCEPT ![r].txn = <<>>, ![r].pc = "read"]
    /\ UNCHANGED <<next_thesis_id, thesis_committee, decision_log, ms, subs,
                   today, clock, pc, overdue, response>>

\* thesis_transition up to its first write: the SELECT of the thesis row and
\* the checks on the row read.  (The committee tables do not change while
\* requests run on other threads here, so the gate is evaluated in this step.)
transition_read(r) ==
    /\ req[r].pc = "read"
    /\ LET t == req[r].thesis_id
           s == req[r].new_status
           done(kind) == req' = [req EXCEPT ![r] = [NoRequest EXCEPT !.result = kind]]
       IN  IF t \notin DOMAIN thesis THEN done("NotFound")
           ELSE IF s \notin THESIS_TRANSITIONS[thesis[t].status]
           THEN done("IllegalTransition")
           ELSE IF s = "ExternallyReviewed" /\ thesis[t].external_reviewer_id = NoId
           THEN done("MissingPrerequisite")
           ELSE \E pick \in Picks(t) :
                IF s = "Approved" /\ ~get_committee_approval_status(t, pick).can_approve
                THEN done("ApprovalBlocked")
                ELSE req' = [req EXCEPT ![r].status = thesis[t].status,
                                        ![r].pc = "update"]
    /\ UNCHANGED <<db, today, clock, pc, overdue, response, wlock>>

\* Seeded fault: the connection is in autocommit mode (isolation_level =
\* None), so the UPDATE is committed on its own.
transition_update_autocommit(r) ==
    /\ req[r].pc = "update"
    /\ wlock = 0
    /\ thesis' = ApplyThesis(thesis,
                    <<[op |-> "UPDATE", thesis_id |-> req[r].thesis_id,
                       status |-> req[r].new_status]>>)
    /\ req' = [req EXCEPT ![r].pc = "insert"]
    /\ UNCHANGED <<next_thesis_id, thesis_committee, decision_log,
                   status_history, ms, subs, today, clock, pc, overdue, response, wlock>>

\* thesis_transition, UPDATE thesis SET status: opens the transaction.
transition_update(r) ==
    /\ req[r].pc = "update"
    /\ wlock = 0
    /\ wlock' = r
    /\ req' = [req EXCEPT
                ![r].txn = <<[op |-> "UPDATE", thesis_id |-> req[r].thesis_id,
                              status |-> req[r].new_status]>>,
                ![r].pc = "insert"]
    /\ UNCHANGED <<db, today, clock, pc, overdue, response>>

\* thesis_transition, INSERT INTO status_history with the status read.
transition_insert(r) ==
    /\ req[r].pc = "insert"
    /\ req' = [req EXCEPT
                ![r].txn = Append(@, [op |-> "INSERT",
                                      thesis_id |-> req[r].thesis_id,
                                      old_status |-> req[r].status,
                                      new_status |-> req[r].new_status]),
                ![r].pc = "commit"]
    /\ UNCHANGED <<db, today, clock, pc, overdue, response, wlock>>

\* thesis_transition, db.commit().
transition_commit(r) ==
    /\ req[r].pc = "commit"
    /\ thesis' = ApplyThesis(thesis, req[r].txn)
    /\ status_history' = ApplyHistory(status_history, req[r].txn)
    /\ wlock' = IF wlock = r THEN 0 ELSE wlock
    /\ req' = [req EXCEPT ![r] = [NoRequest EXCEPT !.result = "OK"]]
    /\ UNCHANGED <<next_thesis_id, thesis_committee, decision_log, ms, subs,
                   today, clock, pc, overdue, response>>

\* The request dies (an exception, "database is locked" after the busy
\* timeout, the thread killed): close_db closes the connection, which rolls
\* the open transaction back.
request_abort(r) ==
    /\ req[r].pc # "none"
    /\ wlock' = IF wlock = r THEN 0 ELSE wlock
    /\ req' = [req EXCEPT ![r] = [NoRequest EXCEPT !.result = "InternalError",
                                                   !.died = req[r].pc]]
    /\ UNCHANGED <<db, today, clock, pc, overdue, response>>

\* ------------------------------------------------------- request inputs
MilestoneIds    == 1..MaxMilestones
MilestoneInputs == MILESTONE_STATUSES \cup {NULL, "Bogus"}
DueInputs       == {IsoFormat(d) : d \in FirstDay..(FirstDay + MaxDays)}
StatusInputs   == THESIS_STATUSES \cup {NULL, "Bogus"}
ReviewerInputs == {NoId} \cup Reviewers
DeadlineInputs == {NullText} \cup {IsoFormat(d) : d \in FirstDay..(FirstDay + MaxDays)}
\* The decision forms posted: <<decision, comment>>, the comment after
\* "comment or None".
DecisionForms  == {<<"Approve", NULL>>, <<"Reject", "see notes">>,
                   <<"Minor Revision", "see notes">>, <<"Abstain", NULL>>}

\* The committee member the requests of SpecAll name.
OneMember == {1}

\* Spec follows one thesis, with no deadline or a deadline on the first day.
SpecIds       == 1..MaxCreated
SpecDeadlines == {NullText, IsoFormat(FirstDay)}

Revisions(t) ==
    Cardinality({i \in 1..Len(status_history[t]) :
                    status_history[t][i].new_status = "RevisionRequested"})

\* The requests the bounds let in.
CreateAllowed(n) ==
    next_thesis_id <= n

TransitionAllowed(t, s) ==
    s = "RevisionRequested" => Revisions(t) < MaxRevisions

\* Every handler, one thesis, all requests within one second of the clock:
\* decisions then carry equal created_at, so the gate's query may return any
\* row of a member, the row it returns when the seconds differ included.
Next ==
    \/ Midnight
    \/ enforce_deadlines
    \/ dashboard
    \/ \E valid \in BOOLEAN, r \in ReviewerInputs, d \in SpecDeadlines,
          c \in SUBSET Members :
          CreateAllowed(MaxCreated) /\ thesis_create(valid, NoId, r, d, c)
    \/ \E t \in SpecIds : thesis_detail(t)
    \/ \E t \in SpecIds, valid \in BOOLEAN, r \in ReviewerInputs,
          d \in SpecDeadlines, c \in SUBSET Members :
          thesis_edit(t, valid, NoId, r, d, c)
    \/ \E t \in SpecIds : thesis_delete(t)
    \/ \E t \in SpecIds, s \in StatusInputs :
          TransitionAllowed(t, s) /\ thesis_transition(t, s)
    \/ \E t \in SpecIds, r \in ReviewerInputs : thesis_assign_reviewer(t, r)
    \/ \E t \in SpecIds, c \in SUBSET Members : thesis_update_committee(t, c)
    \/ \E t \in SpecIds, m \in {NoId} \cup Members, f \in DecisionForms :
          /\ Len(decision_log[t]) < MaxDecisions
          /\ committee_decision_submit(t, m, f[1], f[2])

Spec == Init /\ [][Next]_vars

\* The approval gate on its inputs: one thesis without deadline, its
\* committee and its decision log, shown by the thesis page.
NextGate ==
    \/ Tick
    \/ enforce_deadlines
    \/ \E c \in SUBSET Members :
          CreateAllowed(MaxCreated) /\ thesis_create(TRUE, NoId, NoId, NullText, c)
    \/ \E t \in SpecIds : thesis_detail(t)
    \/ \E t \in SpecIds, c \in SUBSET Members : thesis_update_committee(t, c)
    \/ \E t \in SpecIds, m \in Members, f \in DecisionForms :
          /\ Len(decision_log[t]) < MaxGateDecisions
          /\ committee_decision_submit(t, m, f[1], f[2])

SpecGate == Init /\ [][NextGate]_vars

\* The deadline sweep over several theses: no committees, a reviewer always
\* assigned.
NextSweep ==
    \/ Midnight
    \/ enforce_deadlines
    \/ dashboard
    \/ \E r \in Reviewers, d \in DeadlineInputs :
          CreateAllowed(MaxThesis) /\ thesis_create(TRUE, NoId, r, d, {})
    \/ \E t \in ThesisIds, r \in Reviewers, d \in DeadlineInputs :
          thesis_edit(t, TRUE, NoId, r, d, {})
    \/ \E t \in ThesisIds : thesis_delete(t)
    \/ \E t \in ThesisIds, s \in StatusInputs :
          TransitionAllowed(t, s) /\ thesis_transition(t, s)

SpecSweep == Init /\ [][NextSweep]_vars

\* The milestones of one thesis, which itself moves through its graph and
\* may be swept to Late or deleted.
NextMilestone ==
    \/ Midnight
    \/ enforce_deadlines
    \/ \E d \in SpecDeadlines :
          CreateAllowed(MaxCreated) /\ thesis_create(TRUE, NoId, NoId, d, {})
    \/ \E t \in SpecIds : thesis_delete(t)
    \/ \E t \in SpecIds, s \in THESIS_STATUSES :
          TransitionAllowed(t, s) /\ thesis_transition(t, s)
    \/ \E t \in SpecIds, valid \in BOOLEAN :
          next_milestone_id <= MaxMilestones
          /\ milestone_add(t, valid, IsoFormat(FirstDay))
    \/ \E m \in MilestoneIds, valid \in BOOLEAN, d \in DueInputs :
          milestone_edit(m, valid, d)
    \/ \E m \in MilestoneIds : milestone_delete(m)
    \/ \E m \in MilestoneIds, s \in MilestoneInputs : milestone_transition(m, s)

SpecMilestone == Init /\ [][NextMilestone]_vars

\* Transition requests on threads of their own, each with its sweep, beside
\* a request that creates the thesis; midnight may pass at any moment.
NextConc ==
    \/ Midnight
    \/ wlock = 0 /\ enforce_deadlines
    \/ \E d \in SpecDeadlines :
          /\ wlock = 0
          /\ CreateAllowed(MaxCreated)
          /\ thesis_create(TRUE, NoId, NoId, d, {})
    \/ \E r \in Requests, t \in SpecIds, s \in THESIS_STATUSES :
          /\ Len(status_history[t]) < MaxHistory
          /\ request_begin(r, t, s)
    \/ \E r \in Requests : hook_select(r)
    \/ \E r \in Requests : hook_write(r)
    \/ \E r \in Requests : hook_commit(r)
    \/ \E r \in Requests : transition_read(r)
    \/ \E r \in Requests : transition_update(r)
    \/ \E r \in Requests : transition_insert(r)
    \/ \E r \in Requests : transition_commit(r)
    \/ \E r \in Requests : request_abort(r)

SpecConc == Init /\ [][NextConc]_vars

\* Every handler that writes, on one thesis with at most one committee
\* member, one milestone and one submission; requests also name a thesis id
\* that never exists and ids of deleted rows.
NextAll ==
    \/ Midnight
    \/ enforce_deadlines
    \/ \E valid \in BOOLEAN, d \in SpecDeadlines, c \in SUBSET OneMember :
          CreateAllowed(MaxCreated) /\ thesis_create(valid, NoId, NoId, d, c)
    \/ \E t \in ThesisIds, valid \in BOOLEAN, d \in DueInputs,
          c \in SUBSET OneMember :
          IF t \in DOMAIN thesis
          THEN thesis_edit(t, valid, thesis[t].supervisor_id,
                           thesis[t].external_reviewer_id, d, c)
          ELSE thesis_edit(t, valid, NoId, NoId, d, c)
    \/ \E t \in ThesisIds : thesis_delete(t)
    \/ \E t \in ThesisIds, s \in StatusInputs \ {"RevisionRequested"} :
          thesis_transition(t, s)
    \/ \E t \in ThesisIds, v \in {NoId} \cup Supervisors :
          thesis_assign_supervisor(t, v)
    \/ \E t \in ThesisIds, r \in ReviewerInputs : thesis_assign_reviewer(t, r)
    \/ \E t \in ThesisIds, c \in SUBSET OneMember : thesis_update_committee(t, c)
    \/ \E t \in ThesisIds, m \in {NoId} \cup OneMember,
          dec \in {"Reject", "Abstain"} :
          /\ Len(decision_log[t]) < MaxRows
          /\ committee_decision_submit(t, m, dec, NULL)
    \/ \E t \in ThesisIds, valid \in BOOLEAN :
          next_milestone_id <= MaxRows
          /\ milestone_add(t, valid, IsoFormat(FirstDay))
    \/ \E m \in 1..MaxRows, valid \in BOOLEAN :
          milestone_edit(m, valid, IsoFormat(FirstDay + MaxDays))
    \/ \E m \in 1..MaxRows : milestone_delete(m)
    \/ \E m \in 1..MaxRows, s \in MilestoneInputs : milestone_transition(m, s)
    \/ \E t \in ThesisIds, k \in {"final", "Bogus"} :
          next_submission_id <= MaxRows /\ submission_add(t, k)

SpecAll == Init /\ [][NextAll]_vars

\* ================================================================ claims
SweepStep == pc = "idle" /\ pc' = "view"
ViewStep  == pc = "view" /\ pc' = "idle"

Assigned(t) == {m \in Members : <<t, m>> \in thesis_committee}

\* The days a deadline or the current date can be.
Days == FirstDay..(FirstDay + MaxDays)

LastOf(seq) == seq[Len(seq)]

IsPrefix(a, b) == Len(a) <= Len(b) /\ SubSeq(b, 1, Len(a)) = a

\* The most recent decision of member m on thesis t: the greatest
\* created_at and, among rows of the same second, the greatest id.
MostRecent(t, m) ==
    decision_log[t][CHOOSE i \in LatestRows(t, m) :
                        \A j \in LatestRows(t, m) : j <= i]

Decided(t) == \A m \in Assigned(t) : DecisionRows(t, m) # {}

\* No two rows of one (thesis, member) pair carry the same created_at.
TieFree(t) ==
    \A m \in Members : \A i, j \in DecisionRows(t, m) :
        decision_log[t][i].created_at = decision_log[t][j].created_at => i = j

\* The gate's rule over the members' most recent decisions.
PermitsByMostRecent(t) ==
    \/ Assigned(t) = {}
    \/ /\ Decided(t)
       /\ \A m \in Assigned(t) : MostRecent(t, m).decision # "Reject"

\* C1: a transition request on an existing thesis whose target is not in
\* THESIS_TRANSITIONS[current status] is answered IllegalTransition and
\* changes nothing; a request whose target is in the edge set, and that is
\* neither ExternallyReviewed without a reviewer nor Approved with a denying
\* gate, succeeds: the status becomes the target.
C1_TransitionLegality ==
    [][\A t \in ThesisIds, s \in StatusInputs :
        (thesis_transition(t, s) /\ t \in DOMAIN thesis) =>
            LET edge       == s \in THESIS_TRANSITIONS[thesis[t].status]
                noReviewer == /\ s = "ExternallyReviewed"
                              /\ thesis[t].external_reviewer_id = NoId
                gateDenies == /\ s = "Approved"
                              /\ \E pick \in Picks(t) :
                                   ~get_committee_approval_status(t, pick).can_approve
            IN  /\ ~edge => /\ response'.kind = "IllegalTransition"
                            /\ thesis' = thesis
                            /\ status_history' = status_history
                /\ (edge /\ ~noReviewer /\ ~gateDenies) =>
                            /\ response'.kind = "OK"
                            /\ thesis'[t].status = s]_vars

\* A thesis that followed Draft -> Submitted -> UnderReview ->
\* RevisionRequested and then had a request refused as illegal.
C1_Witness ==
    /\ pc = "idle"
    /\ response.kind = "IllegalTransition"
    /\ \E t \in DOMAIN thesis :
        /\ thesis[t].status = "RevisionRequested"
        /\ Len(status_history[t]) = 4

\* C2: a request with target Approved that passes the edge check succeeds
\* only if the committee is empty or every assigned member has a most recent
\* decision and none of these is Reject; otherwise it is answered
\* ApprovalBlocked and the thesis and its history stay as they were.
C2_ApprovalOnlyIfPermitted ==
    [][\A t \in DOMAIN thesis :
        (/\ thesis_transition(t, "Approved")
         /\ "Approved" \in THESIS_TRANSITIONS[thesis[t].status]) =>
            IF PermitsByMostRecent(t)
            THEN /\ response'.kind = "OK"
                 /\ thesis'[t].status = "Approved"
            ELSE /\ response'.kind = "ApprovalBlocked"
                 /\ thesis' = thesis
                 /\ status_history' = status_history]_vars

\* C2 with the gate's answer taken as get_committee_approval_status computes
\* it: the request succeeds exactly when an evaluation of the gate permits,
\* a refusal carries the gate's reason and changes nothing, and a history
\* row with new_status Approved is appended only after a permitting gate.
C2_ApprovalThroughGate ==
    [][/\ \A t \in ThesisIds :
            (/\ thesis_transition(t, "Approved")
             /\ t \in DOMAIN thesis
             /\ "Approved" \in THESIS_TRANSITIONS[thesis[t].status]) =>
                \E pick \in Picks(t) :
                    LET gate == get_committee_approval_status(t, pick) IN
                    IF gate.can_approve
                    THEN /\ response'.kind = "OK"
                         /\ thesis'[t].status = "Approved"
                    ELSE /\ response'.kind = "ApprovalBlocked"
                         /\ response'.reason = gate.reason
                         /\ gate.reason \in {REASON_UNDECIDED, REASON_REJECT}
                         /\ thesis' = thesis
                         /\ status_history' = status_history
       /\ \A t \in DOMAIN thesis :
            (/\ ViewStep
             /\ t \in DOMAIN thesis'
             /\ Len(status_history'[t]) = Len(status_history[t]) + 1
             /\ LastOf(status_history'[t]).new_status = "Approved") =>
                \E pick \in Picks(t) :
                    get_committee_approval_status(t, pick).can_approve]_vars

\* C3: Reject is an absolute veto: for a non-empty committee whose members
\* have all decided, if some member's most recent decision is Reject, every
\* evaluation of the gate answers can_approve = FALSE with the Reject reason.
C3_RejectVeto ==
    \A t \in DOMAIN thesis :
        (/\ Assigned(t) # {}
         /\ Decided(t)
         /\ \E m \in Assigned(t) : MostRecent(t, m).decision = "Reject") =>
            \A pick \in Picks(t) :
                /\ ~get_committee_approval_status(t, pick).can_approve
                /\ get_committee_approval_status(t, pick).reason = REASON_REJECT

\* C3 with the veto read off the decisions the gate's query returns; and C3
\* itself wherever no member decided twice within one second.
C3_VetoOfReturnedRows ==
    \A t \in DOMAIN thesis : \A pick \in Picks(t) :
        (/\ Assigned(t) # {}
         /\ Decided(t)
         /\ \E m \in Assigned(t) : decision_log[t][pick[m]].decision = "Reject") =>
            /\ ~get_committee_approval_status(t, pick).can_approve
            /\ get_committee_approval_status(t, pick).reason = REASON_REJECT

C3_RejectVetoTieFree ==
    \A t \in DOMAIN thesis :
        (/\ TieFree(t)
         /\ Assigned(t) # {}
         /\ Decided(t)
         /\ \E m \in Assigned(t) : MostRecent(t, m).decision = "Reject") =>
            \A pick \in Picks(t) :
                /\ ~get_committee_approval_status(t, pick).can_approve
                /\ get_committee_approval_status(t, pick).reason = REASON_REJECT

\* C4: if an assigned member has no decision row, the gate answers
\* can_approve = FALSE with the undecided reason, also when another member's
\* decision is Reject; the per-member list names every assigned member once,
\* by name, and shows an undecided member with NULL decision, comment and
\* created_at.
C4_UndecidedBlocks ==
    \A t \in DOMAIN thesis : \A pick \in Picks(t) :
        LET gate == get_committee_approval_status(t, pick)
            mds  == gate.member_decisions
        IN  (\E m \in Assigned(t) : DecisionRows(t, m) = {}) =>
                /\ ~gate.can_approve
                /\ gate.reason = REASON_UNDECIDED
                /\ Len(mds) = Cardinality(Assigned(t))
                /\ {mds[i].id : i \in 1..Len(mds)} = Assigned(t)
                /\ \A i \in 1..Len(mds) :
                    IF DecisionRows(t, mds[i].id) = {}
                    THEN /\ mds[i].decision = NULL
                         /\ mds[i].comment = NULL
                         /\ mds[i].created_at = NullText
                    ELSE mds[i].decision \in COMMITTEE_DECISIONS

\* The thesis page just showed: blocked for the undecided reason, one member
\* with a Reject, the other with NULLs.
C4_Witness ==
    /\ pc = "idle"
    /\ response.kind = "Detail"
    /\ ~response.can_approve
    /\ response.reason = REASON_UNDECIDED
    /\ Len(response.member_decisions) = 2
    /\ \E i, j \in 1..2 :
        /\ response.member_decisions[i].decision = "Reject"
        /\ response.member_decisions[j].decision = NULL
        /\ response.member_decisions[j].comment = NULL
        /\ response.member_decisions[j].created_at = NullText

\* C5: when every assigned member has decided and no member's most recent
\* decision is Reject, every evaluation of the gate permits approval; a
\* Minor Revision counts as an Approve.
C5_NoRejectPermits ==
    \A t \in DOMAIN thesis :
        (/\ Decided(t)
         /\ \A m \in Assigned(t) : MostRecent(t, m).decision # "Reject") =>
            \A pick \in Picks(t) :
                /\ get_committee_approval_status(t, pick).can_approve
                /\ get_committee_approval_status(t, pick).reason = NULL

\* C5 wherever no member decided twice within one second.
C5_NoRejectPermitsTieFree ==
    \A t \in DOMAIN thesis :
        (/\ TieFree(t)
         /\ Decided(t)
         /\ \A m \in Assigned(t) : MostRecent(t, m).decision # "Reject") =>
            \A pick \in Picks(t) :
                /\ get_committee_approval_status(t, pick).can_approve
                /\ get_committee_approval_status(t, pick).reason = NULL

\* C6: with no member assigned, the thesis page shows the gate answering
\* can_approve = TRUE, no reason and an empty per-member list, whatever
\* decision_log holds, and a request UnderReview -> Approved or
\* ExternallyReviewed -> Approved succeeds.
C6_EmptyCommitteePermits ==
    [][\A t \in DOMAIN thesis :
        Assigned(t) = {} =>
            /\ thesis_detail(t) =>
                /\ response'.kind = "Detail"
                /\ response'.can_approve
                /\ response'.reason = NULL
                /\ response'.member_decisions = <<>>
            /\ (/\ thesis_transition(t, "Approved")
                /\ thesis[t].status \in {"UnderReview", "ExternallyReviewed"}) =>
                /\ response'.kind = "OK"
                /\ thesis'[t].status = "Approved"
                /\ LastOf(status_history'[t]) =
                       [old_status |-> thesis[t].status, new_status |-> "Approved"]]_vars

\* The thesis page just showed an open gate with an empty list for a thesis
\* that has no committee while its decision log holds a Reject.
C6_Witness ==
    /\ pc = "idle"
    /\ response.kind = "Detail"
    /\ response.can_approve
    /\ response.member_decisions = <<>>
    /\ \E t \in DOMAIN thesis :
        /\ Assigned(t) = {}
        /\ \E i \in 1..Len(decision_log[t]) : decision_log[t][i].decision = "Reject"

\* C7 as stated: a request with target ExternallyReviewed on a thesis that
\* has no external reviewer is answered MissingPrerequisite whatever the
\* current status.
C7_AlwaysMissingPrerequisite ==
    [][\A t \in DOMAIN thesis :
        (/\ thesis_transition(t, "ExternallyReviewed")
         /\ thesis[t].external_reviewer_id = NoId) =>
            response'.kind = "MissingPrerequisite"]_vars

\* C7 as amended: such a request never succeeds and changes nothing; it is
\* answered MissingPrerequisite when ExternallyReviewed is an edge from the
\* current status (Submitted), and IllegalTransition from every other
\* status.
C7_NeverWithoutReviewer ==
    [][\A t \in DOMAIN thesis :
        (/\ thesis_transition(t, "ExternallyReviewed")
         /\ thesis[t].external_reviewer_id = NoId) =>
            /\ thesis' = thesis
            /\ status_history' = status_history
            /\ response'.kind = IF thesis[t].status = "Submitted"
                                THEN "MissingPrerequisite"
                                ELSE "IllegalTransition"]_vars

C7_Witness ==
    /\ pc = "idle"
    /\ response.kind = "MissingPrerequisite"
    /\ \E t \in DOMAIN thesis :
        /\ thesis[t].status = "Submitted"
        /\ thesis[t].external_reviewer_id = NoId

\* C8: only the deadline sweep sets a status to Late (the thesis is among
\* the rows the sweep selected), a thesis is not created Late, and a thesis
\* that is Late stays Late through every step that keeps it.
C8_LateOnlyBySweepAndAbsorbing ==
    [][\A t \in ThesisIds :
        /\ (t \in DOMAIN thesis /\ t \in DOMAIN thesis') =>
            /\ thesis[t].status = "Late" => thesis'[t].status = "Late"
            /\ (thesis[t].status # "Late" /\ thesis'[t].status = "Late") =>
                /\ SweepStep
                /\ \E r \in overdue' : r.thesis_id = t
        /\ (t \notin DOMAIN thesis /\ t \in DOMAIN thesis') =>
            thesis'[t].status = "Draft"]_vars

\* A Late thesis whose deadline was cleared and whose committee decided
\* afterwards, a transition request on it just refused.
C8_Witness ==
    /\ pc = "idle"
    /\ response.kind = "IllegalTransition"
    /\ \E t \in DOMAIN thesis :
        /\ thesis[t].status = "Late"
        /\ thesis[t].submission_deadline = NullText
        /\ LastOf(status_history[t]).new_status = "Late"
        /\ Len(decision_log[t]) > 0

\* C9: one run of the sweep turns exactly the theses with a deadline
\* strictly before the current date and a status outside {Approved,
\* FinalSubmitted, Completed, Late} to Late, with one new history row
\* (status before -> Late) each, and leaves every other thesis and its
\* history as they were.
C9_SweepExactlyOverdue ==
    [][SweepStep =>
        /\ DOMAIN thesis' = DOMAIN thesis
        /\ \A t \in ThesisIds \ DOMAIN thesis :
            status_history'[t] = status_history[t]
        /\ \A t \in DOMAIN thesis :
            LET hit == /\ \E d \in Days :
                            /\ thesis[t].submission_deadline = IsoFormat(d)
                            /\ d < today
                       /\ thesis[t].status \notin
                            {"Approved", "FinalSubmitted", "Completed", "Late"}
            IN  IF hit
                THEN /\ thesis[t].status \in
                            {"Draft", "Submitted", "UnderReview",
                             "ExternallyReviewed", "RevisionRequested"}
                     /\ thesis'[t] = [thesis[t] EXCEPT !.status = "Late"]
                     /\ status_history'[t] =
                            Append(status_history[t],
                                   [old_status |-> thesis[t].status,
                                    new_status |-> "Late"])
                ELSE /\ thesis'[t] = thesis[t]
                     /\ status_history'[t] = status_history[t]]_vars

\* The sweep just ran over two theses: it moved one from ExternallyReviewed
\* to Late and left the other, whose deadline is the current date, in
\* UnderReview.
C9_Witness ==
    /\ pc = "view"
    /\ \E t, u \in DOMAIN thesis :
        /\ [thesis_id |-> t, status |-> "ExternallyReviewed"] \in overdue
        /\ thesis[t].status = "Late"
        /\ LastOf(status_history[t]) =
               [old_status |-> "ExternallyReviewed", new_status |-> "Late"]
        /\ thesis[u].status = "UnderReview"
        /\ thesis[u].submission_deadline = IsoFormat(today)

LateRows(t) ==
    {i \in 1..Len(status_history[t]) : status_history[t][i].new_status = "Late"}

\* C10: after a run of the sweep, a second run on the same date selects no
\* row, and a run that selects no row changes no thesis and appends no
\* history row; no thesis ever has more than one history row X -> Late.
C10_SweepIdempotent ==
    [][/\ SweepStep =>
            /\ SelectOverdue(thesis', today') = {}
            /\ SelectOverdue(thesis, today) = {} =>
                /\ thesis' = thesis
                /\ status_history' = status_history
       /\ \A t \in ThesisIds : Cardinality(LateRows(t)') <= 1]_vars

\* A sweep just ran and selected nothing although a thesis with a past
\* deadline exists: the thesis is Late already, by its one row
\* Submitted -> Late.
C10_Witness ==
    /\ pc = "view"
    /\ overdue = {}
    /\ \E t \in DOMAIN thesis :
        /\ thesis[t].status = "Late"
        /\ thesis[t].submission_deadline # NullText
        /\ TextLess(thesis[t].submission_deadline, IsoFormat(today))
        /\ Cardinality(LateRows(t)) = 1
        /\ LastOf(status_history[t]) =
               [old_status |-> "Submitted", new_status |-> "Late"]

\* C11: a thesis in Approved, FinalSubmitted or Completed is never moved to
\* Late by any step, and no history row ever records a change to Late from
\* Approved, FinalSubmitted, Completed or Late.
C11_ExemptNeverLate ==
    [][\A t \in ThesisIds :
        /\ (/\ t \in DOMAIN thesis
            /\ t \in DOMAIN thesis'
            /\ thesis[t].status \in {"Approved", "FinalSubmitted", "Completed"}) =>
                thesis'[t].status # "Late"
        /\ \A i \in 1..Len(status_history'[t]) :
            status_history'[t][i].new_status = "Late" =>
                status_history'[t][i].old_status \notin
                    {"Approved", "FinalSubmitted", "Completed", "Late"}]_vars

\* A sweep just ran and selected nothing while a Completed thesis has a
\* deadline before the current date.
C11_Witness ==
    /\ pc = "view"
    /\ overdue = {}
    /\ \E t \in DOMAIN thesis :
        /\ thesis[t].status = "Completed"
        /\ thesis[t].submission_deadline # NullText
        /\ TextLess(thesis[t].submission_deadline, IsoFormat(today))

\* C12: with requests served one at a time, when a handler body runs no
\* thesis has a deadline before the current date and a status outside the
\* exempt set; a transition request on a thesis its own sweep selected is
\* refused and leaves the thesis Late.
C12_SweepBeforeBody ==
    [][/\ ViewStep => SelectOverdue(thesis, today) = {}
       /\ db' # db => SweepStep \/ ViewStep
       /\ \A t \in ThesisIds, s \in StatusInputs :
            (thesis_transition(t, s) /\ \E r \in overdue : r.thesis_id = t) =>
                /\ response'.kind = "IllegalTransition"
                /\ thesis'[t].status = "Late"
                /\ status_history' = status_history]_vars

\* A transition request was just refused on a thesis that a sweep moved from
\* RevisionRequested to Late.
C12_Witness ==
    /\ pc = "idle"
    /\ response.kind = "IllegalTransition"
    /\ \E t \in DOMAIN thesis :
        /\ thesis[t].status = "Late"
        /\ LastOf(status_history[t]) =
               [old_status |-> "RevisionRequested", new_status |-> "Late"]

\* C13: a successful transition request appends exactly one history row to
\* its thesis, (status before the request, requested target), and no row to
\* another thesis; a refused transition request appends none.
C13_OneHistoryRowPerTransition ==
    [][\A t \in ThesisIds, s \in StatusInputs :
        thesis_transition(t, s) =>
            IF response'.kind = "OK"
            THEN /\ t \in DOMAIN thesis
                 /\ thesis'[t].status = s
                 /\ status_history' =
                        [status_history EXCEPT ![t] =
                            Append(@, [old_status |-> thesis[t].status,
                                       new_status |-> s])]
            ELSE status_history' = status_history]_vars

\* A thesis with the three history rows of creation and two transitions.
C13_Witness ==
    /\ pc = "idle"
    /\ response.kind = "OK"
    /\ \E t \in DOMAIN thesis :
        /\ thesis[t].status = "UnderReview"
        /\ status_history[t] =
               <<[old_status |-> NULL, new_status |-> "Draft"],
                 [old_status |-> "Draft", new_status |-> "Submitted"],
                 [old_status |-> "Submitted", new_status |-> "UnderReview"]>>

\* C16: for every assigned member with a decision the gate shows, and
\* decides on, the member's most recent row: the greatest created_at and,
\* among rows of one second, the greatest id.
C16_GateUsesMostRecent ==
    \A t \in DOMAIN thesis : \A pick \in Picks(t) :
        LET mds == get_committee_approval_status(t, pick).member_decisions
        IN  \A i \in 1..Len(mds) :
                DecisionRows(t, mds[i].id) # {} =>
                    /\ mds[i].decision = MostRecent(t, mds[i].id).decision
                    /\ mds[i].comment = MostRecent(t, mds[i].id).comment
                    /\ mds[i].created_at = MostRecent(t, mds[i].id).created_at

\* C16 wherever no member decided twice within one second.
C16_GateUsesMostRecentTieFree ==
    \A t \in DOMAIN thesis : \A pick \in Picks(t) :
        LET mds == get_committee_approval_status(t, pick).member_decisions
        IN  TieFree(t) =>
                \A i \in 1..Len(mds) :
                    DecisionRows(t, mds[i].id) # {} =>
                        /\ mds[i].decision = MostRecent(t, mds[i].id).decision
                        /\ mds[i].comment = MostRecent(t, mds[i].id).comment
                        /\ mds[i].created_at = MostRecent(t, mds[i].id).created_at

\* C17: an accepted decision appends exactly one row, the one posted, to the
\* thesis's log and changes no other row; in every step that is not the
\* deletion of the thesis the log before is a prefix of the log after, and
\* the log grows only by an accepted decision.
C17_DecisionLogAppendOnly ==
    [][\A t \in ThesisIds :
        /\ \A m \in Members, f \in DecisionForms :
            (committee_decision_submit(t, m, f[1], f[2]) /\ response'.kind = "OK") =>
                decision_log' =
                    [decision_log EXCEPT ![t] =
                        Append(@, [committee_member_id |-> m,
                                   decision   |-> f[1],
                                   comment    |-> f[2],
                                   created_at |-> IsoFormat(clock)])]
        /\ \/ IsPrefix(decision_log[t], decision_log'[t])
           \/ thesis_delete(t) /\ decision_log'[t] = <<>>
        /\ Len(decision_log'[t]) > Len(decision_log[t]) =>
            /\ Len(decision_log'[t]) = Len(decision_log[t]) + 1
            /\ \E m \in Members, f \in DecisionForms :
                committee_decision_submit(t, m, f[1], f[2])]_vars

\* The committee of a thesis was replaced by member 3 alone and the log still
\* holds the two decisions of member 1, Reject and then Approve.
C17_Witness ==
    /\ pc = "idle"
    /\ response.kind = "OK"
    /\ \E t \in DOMAIN thesis :
        /\ Assigned(t) = {3}
        /\ Len(decision_log[t]) = 2
        /\ decision_log[t][1].committee_member_id = 1
        /\ decision_log[t][1].decision = "Reject"
        /\ decision_log[t][2].committee_member_id = 1
        /\ decision_log[t][2].decision = "Approve"

\* C18: a decision outside COMMITTEE_DECISIONS is answered InvalidDecision;
\* a decision of the set by a member not assigned to the thesis (never
\* assigned, removed since, or the thesis absent) is answered NotAssigned;
\* neither adds a row to decision_log.
C18_DecisionRefusals ==
    [][\A t \in ThesisIds, m \in Members, f \in DecisionForms :
        committee_decision_submit(t, m, f[1], f[2]) =>
            /\ f[1] \notin COMMITTEE_DECISIONS =>
                /\ response'.kind = "InvalidDecision"
                /\ decision_log' = decision_log
            /\ (f[1] \in COMMITTEE_DECISIONS /\ m \notin Assigned(t)) =>
                /\ response'.kind = "NotAssigned"
                /\ decision_log' = decision_log
            /\ (f[1] \in COMMITTEE_DECISIONS /\ m \in Assigned(t)) =>
                response'.kind = "OK"]_vars

\* A decision was just refused as NotAssigned on a thesis whose log holds a
\* decision of a member who is no longer assigned.
C18_Witness ==
    /\ pc = "idle"
    /\ response.kind = "NotAssigned"
    /\ \E t \in DOMAIN thesis, m \in Members :
        /\ m \notin Assigned(t)
        /\ DecisionRows(t, m) # {}

\* C19: for every target other than Approved the answer of a transition
\* request is determined by the thesis row and the target alone (existence,
\* edge table, reviewer), whatever thesis_committee and decision_log hold,
\* and is never ApprovalBlocked.
C19_GateOnlyForApproved ==
    [][\A t \in ThesisIds, s \in StatusInputs \ {"Approved"} :
        thesis_transition(t, s) =>
            response'.kind =
                IF t \notin DOMAIN thesis THEN "NotFound"
                ELSE IF s \notin THESIS_TRANSITIONS[thesis[t].status]
                THEN "IllegalTransition"
                ELSE IF /\ s = "ExternallyReviewed"
                        /\ thesis[t].external_reviewer_id = NoId
                THEN "MissingPrerequisite"
                ELSE "OK"]_vars

\* A thesis went UnderReview -> RevisionRequested while one member of its
\* committee had rejected and the other had not decided.
C19_Witness ==
    /\ pc = "idle"
    /\ response.kind = "OK"
    /\ \E t \in DOMAIN thesis :
        /\ thesis[t].status = "RevisionRequested"
        /\ LastOf(status_history[t]) =
               [old_status |-> "UnderReview", new_status |-> "RevisionRequested"]
        /\ Assigned(t) = Members
        /\ \E m \in Members : DecisionRows(t, m) = {}
        /\ \E m \in Members : /\ DecisionRows(t, m) # {}
                              /\ MostRecent(t, m).decision = "Reject"

\* C20: a milestone transition request on an existing milestone succeeds,
\* setting the status to the target, exactly when the target is in
\* MILESTONE_TRANSITIONS[current status], and is answered IllegalTransition
\* otherwise; on an absent milestone it is answered NotFound; a refusal
\* changes no milestone.  The answer depends on nothing else: not on the
\* owning thesis's status, deadline, reviewer or committee.
C20_MilestoneLegality ==
    [][\A m \in MilestoneIds, s \in MilestoneInputs :
        milestone_transition(m, s) =>
            /\ response'.kind =
                IF m \notin DOMAIN milestone THEN "NotFound"
                ELSE IF s \in MILESTONE_TRANSITIONS[milestone[m].status]
                THEN "OK"
                ELSE "IllegalTransition"
            /\ milestone' =
                IF response'.kind = "OK"
                THEN [milestone EXCEPT ![m].status = s]
                ELSE milestone
            /\ UNCHANGED <<thesis, status_history>>]_vars

\* A milestone request was just accepted; the thesis is Late, one of its
\* milestones is Accepted and the other InProgress.
C20_Witness ==
    /\ pc = "idle"
    /\ response.kind = "OK"
    /\ \E t \in DOMAIN thesis :
        /\ thesis[t].status = "Late"
        /\ \E m, n \in DOMAIN milestone :
            /\ milestone[m].thesis_id = t /\ milestone[m].status = "Accepted"
            /\ milestone[n].thesis_id = t /\ milestone[n].status = "InProgress"

\* C14: the status update and the history row of a transition are committed
\* together or not at all.  In every committed state a thesis has the status
\* its last history row records, also after a request died between the two
\* writes; and every step that changes the committed status or history of a
\* thesis adds exactly one history row whose new_status is the status the
\* thesis then has.
C14_StatusAndHistoryTogether ==
    /\ [](\A t \in DOMAIN thesis :
            /\ status_history[t] # <<>>
            /\ LastOf(status_history[t]).new_status = thesis[t].status)
    /\ [][\A t \in DOMAIN thesis \cap DOMAIN thesis' :
            \/ /\ thesis'[t].status = thesis[t].status
               /\ status_history'[t] = status_history[t]
            \/ /\ Len(status_history'[t]) = Len(status_history[t]) + 1
               /\ IsPrefix(status_history[t], status_history'[t])
               /\ LastOf(status_history'[t]).new_status = thesis'[t].status]_vars

\* A request died after its UPDATE and before its INSERT, the write lock is
\* free again, and another request is about to read the thesis, which still
\* has the status and the three history rows it had before.
C14_Witness ==
    \E r, q \in Requests : \E t \in DOMAIN thesis :
        /\ r # q
        /\ req[r].result = "InternalError"
        /\ req[r].died = "insert"
        /\ req[q].result = "None"
        /\ req[q].pc = "read"
        /\ req[q].thesis_id = t
        /\ thesis[t].status = "UnderReview"
        /\ Len(status_history[t]) = 3
        /\ wlock = 0

\* C15: a transition's read, validation and write act as one unit.  Every
\* history row committed records as old_status the status the thesis had in
\* the committed state just before, and no step takes a thesis out of Late.
C15_ReadValidateWriteAtomic ==
    [][\A t \in DOMAIN thesis \cap DOMAIN thesis' :
          /\ status_history'[t] # status_history[t] =>
                LastOf(status_history'[t]).old_status = thesis[t].status
          /\ thesis[t].status = "Late" => thesis'[t].status = "Late"]_vars

\* The two halves of C15, each of which fails on its own.
C15_NoStaleOldStatus ==
    [][\A t \in DOMAIN thesis \cap DOMAIN thesis' :
          status_history'[t] # status_history[t] =>
                LastOf(status_history'[t]).old_status = thesis[t].status]_vars

C15_LateNotOverwritten ==
    [][\A t \in DOMAIN thesis \cap DOMAIN thesis' :
          thesis[t].status = "Late" => thesis'[t].status = "Late"]_vars

\* C21: a milestone transition request Submitted -> InProgress succeeds and
\* a request Submitted -> Planned is refused with IllegalTransition, leaving
\* the milestone as it was; and no step gives a milestone that is not in
\* Planned the status Planned.  Milestone ids are never reused, so a
\* milestone added after a deletion is another milestone.
C21_ReworkNeverPlanned ==
    /\ [](DOMAIN milestone \subseteq 1..(next_milestone_id - 1))
    /\ [][\A m \in DOMAIN milestone :
            /\ (milestone[m].status = "Submitted"
                    /\ milestone_transition(m, "InProgress")) =>
                  /\ response'.kind = "OK"
                  /\ milestone' = [milestone EXCEPT ![m].status = "InProgress"]
            /\ (milestone[m].status = "Submitted"
                    /\ milestone_transition(m, "Planned")) =>
                  /\ response'.kind = "IllegalTransition"
                  /\ milestone' = milestone
            /\ (milestone[m].status # "Planned" /\ m \in DOMAIN milestone') =>
                  milestone'[m].status # "Planned"]_vars

\* The only milestone is in Submitted and a request on it has just been
\* refused as an illegal transition; its due date was edited before.
C21_Witness ==
    /\ pc = "idle"
    /\ response.kind = "IllegalTransition"
    /\ \E m \in DOMAIN milestone :
        /\ DOMAIN milestone = {m}
        /\ m = MaxMilestones
        /\ milestone[m].status = "Submitted"
        /\ milestone[m].due_date # IsoFormat(FirstDay)

\* The kinds of refusal the specification calls recoverable.
Refusals ==
    {"NotFound", "IllegalTransition", "MissingPrerequisite", "ApprovalBlocked",
     "InvalidDecision", "NotAssigned", "ValidationError"}

StatusOf(th) == [t \in DOMAIN th |-> th[t].status]

MilestoneStatusOf(mt) == [m \in DOMAIN mt |-> mt[m].status]

\* C22, as stated: after a refused request every thesis status, history row,
\* decision, milestone status and committee assignment is as it was when the
\* request was received, that is, neither the request's sweep (whose rows
\* overdue holds while the body runs) nor its body wrote anything.
C22_RefusalLeavesPriorState ==
    [][(ViewStep /\ response'.kind \in Refusals) =>
            /\ overdue = {}
            /\ StatusOf(thesis') = StatusOf(thesis)
            /\ MilestoneStatusOf(milestone') = MilestoneStatusOf(milestone)
            /\ UNCHANGED <<status_history, decision_log, thesis_committee>>]_vars

\* C22, amended: the body of a refused request writes nothing, so the state
\* after the request is the state its sweep left; the sweep forces the
\* theses it selected to Late, appends one history row for each, and writes
\* nothing else.
C22_RefusedBodyWritesNothing ==
    /\ [][(ViewStep /\ response'.kind \in Refusals) => UNCHANGED db]_vars
    /\ [][SweepStep =>
            /\ DOMAIN thesis' = DOMAIN thesis
            /\ \A t \in DOMAIN thesis :
                  IF \E r \in overdue' : r.thesis_id = t
                  THEN /\ thesis'[t] = [thesis[t] EXCEPT !.status = "Late"]
                       /\ status_history'[t] =
                            Append(status_history[t],
                                   [old_status |-> thesis[t].status,
                                    new_status |-> "Late"])
                  ELSE /\ thesis'[t] = thesis[t]
                       /\ status_history'[t] = status_history[t]
            /\ UNCHANGED <<next_thesis_id, thesis_committee, decision_log,
                           ms, subs>>]_vars

\* A request has just been refused as an illegal transition; the thesis is
\* Late by a forced row, and it has a committee member, a decision and a
\* milestone.
C22_Witness ==
    /\ pc = "idle"
    /\ response.kind = "IllegalTransition"
    /\ \E t \in DOMAIN thesis :
        /\ thesis[t].status = "Late"
        /\ LastOf(status_history[t]) =
               [old_status |-> "UnderReview", new_status |-> "Late"]
        /\ Assigned(t) # {}
        /\ decision_log[t] # <<>>
        /\ \E m \in DOMAIN milestone : milestone[m].status = "Submitted"

\* C23: every thesis has one of the nine statuses, and every history row
\* with an old_status is an edge of THESIS_TRANSITIONS or a forced row: new
\* status Late, old status none of Approved, FinalSubmitted, Completed and
\* Late.  Transition requests carry every status, no target and an unknown
\* string as target.
C23_StatusesAndRecordedEdges ==
    \A t \in DOMAIN thesis :
        /\ thesis[t].status \in THESIS_STATUSES
        /\ \A i \in 1..Len(status_history[t]) :
            LET e == status_history[t][i] IN
            e.old_status # NULL =>
                /\ e.old_status \in THESIS_STATUSES
                /\ \/ e.new_status \in THESIS_TRANSITIONS[e.old_status]
                   \/ /\ e.new_status = "Late"
                      /\ e.old_status \notin
                            {"Approved", "FinalSubmitted", "Completed", "Late"}

\* A transition request was just refused as illegal on a thesis whose
\* history holds the creation row, three edges and a forced row.
C23_Witness ==
    /\ pc = "idle"
    /\ response.kind = "IllegalTransition"
    /\ \E t \in DOMAIN thesis :
        /\ thesis[t].status = "Late"
        /\ Len(status_history[t]) = 5
        /\ status_history[t][4] =
               [old_status |-> "UnderReview", new_status |-> "RevisionRequested"]
        /\ status_history[t][5] =
               [old_status |-> "RevisionRequested", new_status |-> "Late"]

\* The rows of milestone, submission, status_history and thesis_committee
\* that refer to thesis t.
RowsOf(t, mt, sb, sh, tc) ==
    [milestone  |-> {m \in DOMAIN mt : mt[m].thesis_id = t},
     submission |-> {k \in DOMAIN sb : sb[k].thesis_id = t},
     history    |-> sh[t],
     committee  |-> {p \in tc : p[1] = t}]

NoRows == [milestone |-> {}, submission |-> {}, history |-> <<>>, committee |-> {}]

\* C24: in every state each milestone, submission, history row and committee
\* assignment refers to an existing thesis, whatever thesis id requests
\* name; and the step that deletes a thesis leaves no such row of it, and
\* leaves the rows of every other thesis as they were.
C24_CascadeNoOrphans ==
    /\ [](\A t \in ThesisIds \ DOMAIN thesis :
            RowsOf(t, milestone, submission, status_history, thesis_committee)
                = NoRows)
    /\ [][\A t \in ThesisIds :
            thesis_delete(t) =>
                /\ t \notin DOMAIN thesis'
                /\ RowsOf(t, milestone', submission', status_history',
                          thesis_committee') = NoRows
                /\ \A u \in ThesisIds \ {t} :
                      /\ u \in DOMAIN thesis' <=> u \in DOMAIN thesis
                      /\ RowsOf(u, milestone', submission', status_history',
                                thesis_committee')
                         = RowsOf(u, milestone, submission, status_history,
                                  thesis_committee)]_vars

\* The thesis was deleted after a milestone and a submission had been added
\* to it, and a request to add a row to it has since died on the foreign key.
C24_Witness ==
    /\ pc = "idle"
    /\ response.kind = "InternalError"
    /\ thesis = <<>>
    /\ next_thesis_id > MaxCreated
    /\ next_milestone_id > MaxRows
    /\ next_submission_id > MaxRows
    /\ milestone = <<>>
    /\ submission = <<>>

\* C25: with requests served one at a time the history of every thesis is a
\* chain: it starts with (NULL, Draft), each later row's old_status is the
\* row before's new_status, and the last row's new_status is the thesis's
\* status.  Rows are counted by the steps that write them: creation writes
\* the first, each accepted transition and each forced Late appends one, and
\* no other step changes the history of an existing thesis.
C25_HistoryChain ==
    /\ [](\A t \in DOMAIN thesis :
            LET h == status_history[t] IN
            /\ h # <<>>
            /\ h[1] = [old_status |-> NULL, new_status |-> "Draft"]
            /\ \A i \in 2..Len(h) : h[i].old_status = h[i - 1].new_status
            /\ LastOf(h).new_status = thesis[t].status)
    /\ [][\A t \in ThesisIds :
            IF t \notin DOMAIN thesis' THEN status_history'[t] = <<>>
            ELSE IF t \notin DOMAIN thesis
            THEN status_history'[t] =
                    <<[old_status |-> NULL, new_status |-> "Draft"]>>
            ELSE \/ /\ status_history'[t] = status_history[t]
                    /\ thesis'[t].status = thesis[t].status
                 \/ /\ SweepStep
                    /\ \E r \in overdue' : r.thesis_id = t
                    /\ status_history'[t] =
                         Append(status_history[t],
                                [old_status |-> thesis[t].status,
                                 new_status |-> "Late"])
                 \/ /\ ViewStep
                    /\ response'.kind = "OK"
                    /\ \E s \in THESIS_STATUSES :
                         /\ thesis_transition(t, s)
                         /\ status_history'[t] =
                              Append(status_history[t],
                                     [old_status |-> thesis[t].status,
                                      new_status |-> s])]_vars

\* A thesis with the creation row, two accepted transitions and a forced
\* Late: four rows.
C25_Witness ==
    \E t \in DOMAIN thesis :
        /\ thesis[t].status = "Late"
        /\ status_history[t] =
              <<[old_status |-> NULL, new_status |-> "Draft"],
                [old_status |-> "Draft", new_status |-> "Submitted"],
                [old_status |-> "Submitted", new_status |-> "ExternallyReviewed"],
                [old_status |-> "ExternallyReviewed", new_status |-> "Late"]>>

\* A step of one of the handlers that are neither the transition request nor
\* creation nor deletion of a thesis, on any input.
OtherHandlerStep ==
    \/ \E t \in ThesisIds, valid \in BOOLEAN, v \in {NoId} \cup Supervisors,
          r \in ReviewerInputs, d \in DeadlineInputs, c \in SUBSET Members :
          thesis_edit(t, valid, v, r, d, c)
    \/ \E t \in ThesisIds, v \in {NoId} \cup Supervisors :
          thesis_assign_supervisor(t, v)
    \/ \E t \in ThesisIds, r \in ReviewerInputs : thesis_assign_reviewer(t, r)
    \/ \E t \in ThesisIds, c \in SUBSET Members : thesis_update_committee(t, c)
    \/ \E t \in ThesisIds, m \in {NoId} \cup Members,
          dec \in COMMITTEE_DECISIONS \cup {"Abstain"} :
          committee_decision_submit(t, m, dec, NULL)
    \/ \E t \in ThesisIds, valid \in BOOLEAN, d \in DueInputs :
          milestone_add(t, valid, d)
    \/ \E m \in MilestoneIds, valid \in BOOLEAN, d \in DueInputs :
          milestone_edit(m, valid, d)
    \/ \E m \in MilestoneIds : milestone_delete(m)
    \/ \E m \in MilestoneIds, s \in MilestoneInputs : milestone_transition(m, s)
    \/ \E t \in ThesisIds, k \in SUBMISSION_KINDS \cup {"Bogus"} :
          submission_add(t, k)

\* C26: the bodies of thesis edit, supervisor and reviewer assignment,
\* committee update, committee decision, milestone add, edit, delete and
\* transition and submission add leave every thesis status and every history
\* row as they were; the status of an existing thesis changes only in a sweep
\* step or a transition request on that thesis.
C26_StatusWrittenOnlyByTransitionAndSweep ==
    /\ [][\/ /\ StatusOf(thesis') = StatusOf(thesis)
             /\ status_history' = status_history
          \/ ~OtherHandlerStep]_vars
    /\ [][\A t \in DOMAIN thesis \cap DOMAIN thesis' :
            thesis'[t].status # thesis[t].status =>
                \/ SweepStep
                \/ \E s \in THESIS_STATUSES : thesis_transition(t, s)]_vars

\* A Late thesis whose deadline has been moved to today: it is still Late.
C26_Witness ==
    /\ pc = "idle"
    /\ response.kind = "OK"
    /\ \E t \in DOMAIN thesis :
        /\ thesis[t].status = "Late"
        /\ thesis[t].submission_deadline = IsoFormat(today)
        /\ today = FirstDay + MaxDays

\* C27: a request to Approved from UnderReview or ExternallyReviewed
\* succeeds when every member assigned at that moment has a most recent
\* decision other than Reject, whatever the log holds of members not
\* assigned; and it is refused as undecided when some assigned member has no
\* decision.
C27_OnlyAssignedMembersCount ==
    [][\A t \in DOMAIN thesis :
        (/\ thesis_transition(t, "Approved")
         /\ thesis[t].status \in {"UnderReview", "ExternallyReviewed"}) =>
            /\ (\A m \in Assigned(t) :
                    /\ DecisionRows(t, m) # {}
                    /\ MostRecent(t, m).decision # "Reject") =>
                  /\ response'.kind = "OK"
                  /\ thesis'[t].status = "Approved"
            /\ (\E m \in Assigned(t) : DecisionRows(t, m) = {}) =>
                  /\ response'.kind = "ApprovalBlocked"
                  /\ response'.reason = REASON_UNDECIDED
                  /\ thesis' = thesis]_vars

\* C27 wherever no member decided twice within one second.
C27_OnlyAssignedMembersCountTieFree ==
    [][\A t \in DOMAIN thesis :
        (/\ thesis_transition(t, "Approved")
         /\ thesis[t].status \in {"UnderReview", "ExternallyReviewed"}
         /\ TieFree(t)) =>
            /\ (\A m \in Assigned(t) :
                    /\ DecisionRows(t, m) # {}
                    /\ MostRecent(t, m).decision # "Reject") =>
                  /\ response'.kind = "OK"
                  /\ thesis'[t].status = "Approved"
            /\ (\E m \in Assigned(t) : DecisionRows(t, m) = {}) =>
                  /\ response'.kind = "ApprovalBlocked"
                  /\ response'.reason = REASON_UNDECIDED
                  /\ thesis' = thesis]_vars

\* The gate's answer does not depend on the rows of members that are not
\* assigned: two answers of the query that agree on the assigned members
\* give the same result.
C27_UnassignedRowsIgnored ==
    \A t \in DOMAIN thesis : \A p1, p2 \in Picks(t) :
        (\A m \in Assigned(t) : p1[m] = p2[m]) =>
            get_committee_approval_status(t, p1)
                = get_committee_approval_status(t, p2)

\* The thesis was approved while the log holds a Reject of a member who is
\* no longer assigned.
C27_ApprovedAfterRemoval ==
    \E t \in DOMAIN thesis :
        /\ pc = "idle"
        /\ response.kind = "OK"
        /\ LastOf(status_history[t]) =
              [old_status |-> "UnderReview", new_status |-> "Approved"]
        /\ Assigned(t) # {}
        /\ TieFree(t)
        /\ \E m \in Members \ Assigned(t) :
              /\ DecisionRows(t, m) # {}
              /\ MostRecent(t, m).decision = "Reject"

\* A step of a request that replaces the committee of thesis t: the
\* committee update or the thesis edit.
ReplacesCommittee(t) ==
    \/ \E c \in SUBSET Members : thesis_update_committee(t, c)
    \/ \E valid \in BOOLEAN, v \in {NoId} \cup Supervisors, r \in ReviewerInputs,
          d \in DeadlineInputs, c \in SUBSET Members :
          thesis_edit(t, valid, v, r, d, c)

\* The gate after the step shows member m with the decision dec.
ShownAfter(t, m, dec) ==
    \A pick \in Picks(t) :
        \E i \in 1..Len(get_committee_approval_status(t, pick).member_decisions)' :
            /\ (get_committee_approval_status(t, pick).member_decisions[i].id)' = m
            /\ (get_committee_approval_status(t, pick).member_decisions[i].decision)'
                 = dec

\* C28: a request that replaces the committee leaves decision_log as it
\* was, and a member it assigns who has decided before is shown by the gate
\* with the most recent decision that member recorded.
C28_ReplacementKeepsDecisions ==
    [][\A t \in ThesisIds :
        \/ /\ decision_log' = decision_log
           /\ \A m \in Members :
                (/\ <<t, m>> \in thesis_committee' \ thesis_committee
                 /\ DecisionRows(t, m) # {}) =>
                    ShownAfter(t, m, MostRecent(t, m).decision)
        \/ ~ReplacesCommittee(t)]_vars

\* C28 wherever no member decided twice within one second.
C28_ReplacementKeepsDecisionsTieFree ==
    [][\A t \in ThesisIds :
        \/ /\ decision_log' = decision_log
           /\ \A m \in Members :
                (/\ <<t, m>> \in thesis_committee' \ thesis_committee
                 /\ DecisionRows(t, m) # {}
                 /\ TieFree(t)) =>
                    ShownAfter(t, m, MostRecent(t, m).decision)
        \/ ~ReplacesCommittee(t)]_vars

PostApproval == {"Approved", "FinalSubmitted", "Completed"}

\* The rows of t's history from the first one that records Approved.
SinceApproved(t) ==
    LET h == status_history[t]
        A == {i \in 1..Len(h) : h[i].new_status = "Approved"}
    IN  IF A = {} THEN <<>>
        ELSE SubSeq(h, CHOOSE i \in A : \A j \in A : i <= j, Len(h))

\* C29: a thesis that exists and has once been Approved has a status in
\* {Approved, FinalSubmitted, Completed} and at most two history rows after
\* the approval; from Approved a step leads only to Approved or
\* FinalSubmitted, from FinalSubmitted only to FinalSubmitted or Completed,
\* from Completed only to Completed, and each such change is an accepted
\* transition request; decisions, committee changes, edits and midnights
\* change none of it.
C29_ApprovalIrrevocable ==
    /\ [](\A t \in DOMAIN thesis :
            SinceApproved(t) # <<>> =>
                /\ thesis[t].status \in PostApproval
                /\ Len(SinceApproved(t)) <= 3)
    /\ [][\A t \in DOMAIN thesis \cap DOMAIN thesis' :
            /\ thesis[t].status = "Approved" =>
                  thesis'[t].status \in {"Approved", "FinalSubmitted"}
            /\ thesis[t].status = "FinalSubmitted" =>
                  thesis'[t].status \in {"FinalSubmitted", "Completed"}
            /\ thesis[t].status = "Completed" => thesis'[t].status = "Completed"
            /\ (thesis[t].status \in PostApproval
                    /\ thesis'[t].status # thesis[t].status) =>
                  /\ thesis_transition(t, thesis'[t].status)
                  /\ response'.kind = "OK"]_vars

\* A Completed thesis whose deadline has passed, with a Reject in its log
\* and no member assigned, on which a transition request was just refused.
C29_Witness ==
    /\ pc = "idle"
    /\ response.kind = "IllegalTransition"
    /\ today = FirstDay + MaxDays
    /\ \E t \in DOMAIN thesis :
        /\ thesis[t].status = "Completed"
        /\ thesis[t].submission_deadline = IsoFormat(FirstDay)
        /\ Assigned(t) = {}
        /\ \E i \in 1..Len(decision_log[t]) : decision_log[t][i].decision = "Reject"

\* C30: a milestone in Accepted stays Accepted through every step that
\* keeps it, and it goes only by its own deletion or the deletion of its
\* thesis; every transition request on it, whatever the target, is refused
\* with IllegalTransition and changes nothing; a milestone edit changes no
\* status and a sweep changes no milestone.
C30_AcceptedTerminal ==
    /\ [][\A m \in DOMAIN milestone :
            milestone[m].status = "Accepted" =>
                /\ m \in DOMAIN milestone' => milestone'[m].status = "Accepted"
                /\ m \notin DOMAIN milestone' =>
                      \/ milestone_delete(m)
                      \/ thesis_delete(milestone[m].thesis_id)
                /\ \A s \in MilestoneInputs :
                      milestone_transition(m, s) =>
                          /\ response'.kind = "IllegalTransition"
                          /\ milestone' = milestone]_vars
    /\ [][\/ MilestoneStatusOf(milestone') = MilestoneStatusOf(milestone)
          \/ ~(\E m \in MilestoneIds, valid \in BOOLEAN, d \in DueInputs :
                  milestone_edit(m, valid, d))]_vars
    /\ [][SweepStep => milestone' = milestone]_vars

\* An Accepted milestone of a Late thesis whose due date was edited, a
\* transition request just refused.
C30_Witness ==
    /\ pc = "idle"
    /\ response.kind = "IllegalTransition"
    /\ \E m \in DOMAIN milestone :
        /\ milestone[m].status = "Accepted"
        /\ milestone[m].due_date = IsoFormat(FirstDay + MaxDays)
        /\ DOMAIN milestone = {m}
        /\ milestone[m].thesis_id \in DOMAIN thesis
        /\ thesis[milestone[m].thesis_id].status = "Late"

====
